---- MODULE Spec2Model ----
(***************************************************************************)
(* Model of pkg/queue/instance.go: a single-consumer task queue guarded by *)
(* one mutex/condition pair, with delayed re-Push of failed tasks and a    *)
(* stop channel watched by a goroutine.                                    *)
(*                                                                         *)
(* The body of Run is present in the source in two forms, separated by     *)
(* merge markers (instance.go:137-164): the HEAD form is an inline loop    *)
(* that leaves only when the buffer is empty, the other form loops on      *)
(* processNextItem/get, which leaves as soon as closing is set.  The       *)
(* variable "variant" says which of the two forms the build contains; it   *)
(* is chosen in Init and never changes.                                    *)
(***************************************************************************)
EXTENDS Integers, Sequences, FiniteSets, TLC

\* ------------------------------------------------------------------ bounds
NumTasks == 2
MaxFails == 1
MaxExecs == 2

Tasks == 1..NumTasks
\* a task with this budget returns an error on every execution
Always == MaxFails + 1
Budgets == 0..Always

Variants == {"HEAD", "processNextItem"}

\* threads that can own q.cond.L
Free == <<"free", 0>>
Consumer == <<"consumer", 0>>
Watcher == <<"watcher", 0>>
Producer(t) == <<"prod", t>>
Retrier(t) == <<"retry", t>>

VARIABLES
    variant,     \* which form of the Run loop is compiled in
    tasks,       \* q.tasks
    closing,     \* q.closing
    closedCh,    \* TRUE once q.closed has been closed
    onceDone,    \* q.closeOnce has run its function
    closeCount,  \* number of close(q.closed) calls made
    lock,        \* owner of q.cond.L
    stopped,     \* the stop channel has been closed by the owner
    cpc,         \* position of the goroutine that called Run
    running,     \* tasks whose function body is being executed
    wpc,         \* position of the stop watcher goroutine
    prod,        \* prod[t]: position of the producer that pushes task t
    timers,      \* timers[t]: armed time.AfterFunc timers that will re-Push t
    retry,       \* retry[t]: position of the fired timer's goroutine for t
    budget,      \* budget[t]: number of executions of t that return an error
    fails,       \* fails[t]: executions of t that returned an error (saturating)
    execs,       \* execs[t]: executions of t started (saturating)
    pushOrder,   \* producers' tasks in the order their Push appended them
    admits,      \* admits[t]: Pushes of t by retry timers that appended it (saturating)
    fate         \* fate[t]: "ok" once an execution of t returned nil, "dropped"
                 \* once a Push of t found closing set, "none" before

queueVars == <<tasks, closing, closedCh, onceDone, closeCount, lock>>
threadVars == <<cpc, running, wpc, prod, timers, retry, stopped>>
taskVars == <<budget, fails, execs>>
histVars == <<pushOrder, admits, fate>>
vars == <<variant, queueVars, threadVars, taskVars, histVars>>

\* ----------------------------------------------------------------- helpers
Range(s) == {s[i] : i \in 1..Len(s)}

Min(a, b) == IF a < b THEN a ELSE b

\* sync.Cond.Signal: wakes the goroutine parked in Wait, if there is one
Signal(pc) == IF pc = "waiting" THEN "woken" ELSE pc

\* Push, lines 72-74: the item is appended unless closing is set
AdmitAlways(q, c, item) == Append(q, item)
AdmitFront(q, c, item) == IF ~c THEN <<item>> \o q ELSE q
Admit(q, c, item) == IF ~c THEN Append(q, item) ELSE q

\* task, q.tasks = q.tasks[0], q.tasks[1:]
PopLast(q) == <<q[Len(q)], SubSeq(q, 1, Len(q) - 1)>>
PopKeep(q) == <<Head(q), q>>
Pop(q) == <<Head(q), Tail(q)>>

\* the wait loop's condition: for !q.closing && len(q.tasks) == 0
MustWaitNever == FALSE
MustWait == ~closing /\ Len(tasks) = 0

\* the test made after the wait loop that ends the Run loop
ShuttingDown ==
    IF variant = "HEAD" THEN Len(tasks) = 0 ELSE closing

\* whether the next execution of t returns an error
WillFail(t) == budget[t] = Always \/ fails[t] < budget[t]

\* time.AfterFunc(q.delay, func() { q.Push(task) })
ScheduleRetryTwice(tm, t) == [tm EXCEPT ![t] = @ + 2]
ScheduleRetryNever(tm, t) == tm
ScheduleRetry(tm, t) == [tm EXCEPT ![t] = @ + 1]

\* -------------------------------------------------------------------- Init
Init ==
    /\ variant \in Variants
    /\ tasks = <<>>
    /\ closing = FALSE
    /\ closedCh = FALSE
    /\ onceDone = FALSE
    /\ closeCount = 0
    /\ lock = Free
    /\ stopped = FALSE
    /\ cpc = "start"
    /\ running = {}
    /\ wpc = "none"
    /\ prod = [t \in Tasks |-> "idle"]
    /\ timers = [t \in Tasks |-> 0]
    /\ retry = [t \in Tasks |-> "none"]
    /\ budget \in [Tasks -> Budgets]
    /\ fails = [t \in Tasks |-> 0]
    /\ execs = [t \in Tasks |-> 0]
    /\ pushOrder = <<>>
    /\ admits = [t \in Tasks |-> 0]
    /\ fate = [t \in Tasks |-> "none"]

\* --------------------------------------------------------------- producers
\* a producer calls q.Push(t)
PushCall(t) ==
    /\ prod[t] = "idle"
    /\ prod' = [prod EXCEPT ![t] = "calling"]
    /\ UNCHANGED <<variant, queueVars, taskVars, histVars>>
    /\ UNCHANGED <<cpc, running, wpc, timers, retry, stopped>>

\* q.cond.L.Lock() in Push
PushLock(t) ==
    /\ prod[t] = "calling"
    /\ lock = Free
    /\ lock' = Producer(t)
    /\ prod' = [prod EXCEPT ![t] = "locked"]
    /\ UNCHANGED <<variant, tasks, closing, closedCh, onceDone, closeCount>>
    /\ UNCHANGED <<cpc, running, wpc, timers, retry, stopped>>
    /\ UNCHANGED <<taskVars, histVars>>

\* the rest of Push: conditional append, Signal, deferred Unlock
PushBody(t) ==
    /\ prod[t] = "locked"
    /\ lock = Producer(t)
    /\ tasks' = Admit(tasks, closing, t)
    /\ cpc' = Signal(cpc)
    /\ lock' = Free
    /\ prod' = [prod EXCEPT ![t] = "done"]
    /\ pushOrder' = IF Len(tasks') > Len(tasks) THEN Append(pushOrder, t) ELSE pushOrder
    /\ fate' = IF Len(tasks') > Len(tasks) THEN fate ELSE [fate EXCEPT ![t] = "dropped"]
    /\ UNCHANGED <<variant, closing, closedCh, onceDone, closeCount>>
    /\ UNCHANGED <<running, wpc, timers, retry, stopped>>
    /\ UNCHANGED <<taskVars, admits>>

\* ------------------------------------------------------------ retry timers
\* the delay of an armed timer elapses; its goroutine calls q.Push(task)
TimerFire(t) ==
    /\ timers[t] > 0
    /\ retry[t] = "none"
    /\ timers' = [timers EXCEPT ![t] = @ - 1]
    /\ retry' = [retry EXCEPT ![t] = "calling"]
    /\ UNCHANGED <<variant, queueVars, taskVars, histVars>>
    /\ UNCHANGED <<cpc, running, wpc, prod, stopped>>

RetryLock(t) ==
    /\ retry[t] = "calling"
    /\ lock = Free
    /\ lock' = Retrier(t)
    /\ retry' = [retry EXCEPT ![t] = "locked"]
    /\ UNCHANGED <<variant, tasks, closing, closedCh, onceDone, closeCount>>
    /\ UNCHANGED <<cpc, running, wpc, prod, timers, stopped>>
    /\ UNCHANGED <<taskVars, histVars>>

RetryBody(t) ==
    /\ retry[t] = "locked"
    /\ lock = Retrier(t)
    /\ tasks' = Admit(tasks, closing, t)
    /\ cpc' = Signal(cpc)
    /\ lock' = Free
    /\ retry' = [retry EXCEPT ![t] = "none"]
    /\ admits' = IF Len(tasks') > Len(tasks)
                   THEN [admits EXCEPT ![t] = Min(@ + 1, MaxExecs)] ELSE admits
    /\ fate' = IF Len(tasks') > Len(tasks) THEN fate ELSE [fate EXCEPT ![t] = "dropped"]
    /\ UNCHANGED <<variant, closing, closedCh, onceDone, closeCount>>
    /\ UNCHANGED <<running, wpc, prod, timers, stopped>>
    /\ UNCHANGED <<taskVars, pushOrder>>

\* ------------------------------------------------------------ stop channel
\* the owner closes the stop channel
Stop ==
    /\ ~stopped
    /\ stopped' = TRUE
    /\ UNCHANGED <<variant, queueVars, taskVars, histVars>>
    /\ UNCHANGED <<cpc, running, wpc, prod, timers, retry>>

\* <-stop returns in the watcher goroutine
WatcherRecv ==
    /\ wpc = "recv"
    /\ stopped
    /\ wpc' = "lock"
    /\ UNCHANGED <<variant, queueVars, taskVars, histVars>>
    /\ UNCHANGED <<cpc, running, prod, timers, retry, stopped>>

WatcherLock ==
    /\ wpc = "lock"
    /\ lock = Free
    /\ lock' = Watcher
    /\ wpc' = "locked"
    /\ UNCHANGED <<variant, tasks, closing, closedCh, onceDone, closeCount>>
    /\ UNCHANGED <<cpc, running, prod, timers, retry, stopped>>
    /\ UNCHANGED <<taskVars, histVars>>

\* q.cond.Signal(); q.closing = true; q.cond.L.Unlock()
WatcherNoSignal ==
    /\ wpc = "locked"
    /\ lock = Watcher
    /\ closing' = TRUE
    /\ lock' = Free
    /\ wpc' = "done"
    /\ UNCHANGED <<variant, tasks, closedCh, onceDone, closeCount>>
    /\ UNCHANGED <<cpc, running, prod, timers, retry, stopped>>
    /\ UNCHANGED <<taskVars, histVars>>

WatcherBody ==
    /\ wpc = "locked"
    /\ lock = Watcher
    /\ cpc' = Signal(cpc)
    /\ closing' = TRUE
    /\ lock' = Free
    /\ wpc' = "done"
    /\ UNCHANGED <<variant, tasks, closedCh, onceDone, closeCount>>
    /\ UNCHANGED <<running, prod, timers, retry, stopped>>
    /\ UNCHANGED <<taskVars, histVars>>

\* ---------------------------------------------------------------- consumer
\* Run is entered: the deferred close is registered, the watcher is started
RunStartCloseEarly ==
    /\ cpc = "start"
    /\ cpc' = "lock"
    /\ wpc' = "recv"
    /\ closedCh' = TRUE
    /\ onceDone' = TRUE
    /\ closeCount' = closeCount + 1
    /\ UNCHANGED <<variant, tasks, closing, lock>>
    /\ UNCHANGED <<running, prod, timers, retry, stopped>>
    /\ UNCHANGED <<taskVars, histVars>>

RunStart ==
    /\ cpc = "start"
    /\ cpc' = "lock"
    /\ wpc' = "recv"
    /\ UNCHANGED <<variant, queueVars, taskVars, histVars>>
    /\ UNCHANGED <<running, prod, timers, retry, stopped>>

\* q.cond.L.Lock() at the top of the loop, or on return from Wait
ConsumerLock ==
    /\ cpc \in {"lock", "woken"}
    /\ lock = Free
    /\ lock' = Consumer
    /\ cpc' = "check"
    /\ UNCHANGED <<variant, tasks, closing, closedCh, onceDone, closeCount>>
    /\ UNCHANGED <<running, wpc, prod, timers, retry, stopped>>
    /\ UNCHANGED <<taskVars, histVars>>

\* q.cond.Wait(): releases the lock and parks
ConsumerWaitLocked ==
    /\ cpc = "check"
    /\ lock = Consumer
    /\ MustWait
    /\ cpc' = "waiting"
    /\ UNCHANGED <<variant, queueVars, taskVars, histVars>>
    /\ UNCHANGED <<running, wpc, prod, timers, retry, stopped>>

ConsumerWait ==
    /\ cpc = "check"
    /\ lock = Consumer
    /\ MustWait
    /\ lock' = Free
    /\ cpc' = "waiting"
    /\ UNCHANGED <<variant, tasks, closing, closedCh, onceDone, closeCount>>
    /\ UNCHANGED <<running, wpc, prod, timers, retry, stopped>>
    /\ UNCHANGED <<taskVars, histVars>>

\* the loop is left: Unlock and return from the loop
ConsumerShutdownReset ==
    /\ cpc = "check"
    /\ lock = Consumer
    /\ ~MustWait
    /\ ShuttingDown
    /\ lock' = Free
    /\ closing' = FALSE
    /\ cpc' = "return"
    /\ UNCHANGED <<variant, tasks, closedCh, onceDone, closeCount>>
    /\ UNCHANGED <<running, wpc, prod, timers, retry, stopped>>
    /\ UNCHANGED <<taskVars, histVars>>

ConsumerShutdown ==
    /\ cpc = "check"
    /\ lock = Consumer
    /\ ~MustWait
    /\ ShuttingDown
    /\ lock' = Free
    /\ cpc' = "return"
    /\ UNCHANGED <<variant, tasks, closing, closedCh, onceDone, closeCount>>
    /\ UNCHANGED <<running, wpc, prod, timers, retry, stopped>>
    /\ UNCHANGED <<taskVars, histVars>>

\* task() is called on the consumer's goroutine, which waits for its result
StartTaskAsync(t) ==
    /\ running' = running \cup {t}
    /\ cpc' = "lock"

StartTask(t) ==
    /\ running' = running \cup {t}
    /\ cpc' = "exec"

\* the head is taken off q.tasks, the lock released and the task called
ConsumerDequeue ==
    /\ cpc = "check"
    /\ lock = Consumer
    /\ ~MustWait
    /\ ~ShuttingDown
    /\ LET t == Pop(tasks)[1] IN
        /\ tasks' = Pop(tasks)[2]
        /\ StartTask(t)
        /\ execs' = [execs EXCEPT ![t] = Min(@ + 1, MaxExecs)]
    /\ lock' = Free
    /\ UNCHANGED <<variant, closing, closedCh, onceDone, closeCount>>
    /\ UNCHANGED <<wpc, prod, timers, retry, stopped>>
    /\ UNCHANGED <<budget, fails, histVars>>

\* if err != nil: the retry is handed to a timer and the loop goes on
OnErrorInline(t) ==
    /\ UNCHANGED <<timers, running, cpc>>

OnError(t) ==
    /\ timers' = ScheduleRetry(timers, t)
    /\ running' = running \ {t}
    /\ cpc' = "lock"

\* the task function returns
ExecFinish(t) ==
    /\ cpc = "exec"
    /\ t \in running
    /\ IF WillFail(t)
         THEN /\ OnError(t)
              /\ fails' = [fails EXCEPT ![t] = Min(@ + 1, MaxFails)]
              /\ UNCHANGED fate
         ELSE /\ running' = running \ {t}
              /\ cpc' = "lock"
              /\ fate' = [fate EXCEPT ![t] = "ok"]
              /\ UNCHANGED <<timers, fails>>
    /\ UNCHANGED <<variant, queueVars, pushOrder, admits>>
    /\ UNCHANGED <<wpc, prod, retry, stopped, budget, execs>>

\* Run returns: the deferred q.closeOnce.Do(func() { close(q.closed) })
RunReturnNoOnce ==
    /\ cpc = "return"
    /\ cpc' = "stopped"
    /\ onceDone' = TRUE
    /\ closedCh' = TRUE
    /\ closeCount' = closeCount + 1
    /\ UNCHANGED <<variant, tasks, closing, lock>>
    /\ UNCHANGED <<running, wpc, prod, timers, retry, stopped>>
    /\ UNCHANGED <<taskVars, histVars>>

RunReturn ==
    /\ cpc = "return"
    /\ cpc' = "stopped"
    /\ IF onceDone
         THEN UNCHANGED <<closedCh, onceDone, closeCount>>
         ELSE /\ onceDone' = TRUE
              /\ closedCh' = TRUE
              /\ closeCount' = closeCount + 1
    /\ UNCHANGED <<variant, tasks, closing, lock>>
    /\ UNCHANGED <<running, wpc, prod, timers, retry, stopped>>
    /\ UNCHANGED <<taskVars, histVars>>

\* the owner calls Run on the same queue again, after it has returned, with
\* the same stop channel.  The first call returns only after its watcher has
\* set closing and ended; a further call is taken up once the watcher of the
\* call before has ended too.
RunAgain ==
    /\ cpc = "stopped"
    /\ wpc = "done"
    /\ cpc' = "start"
    /\ UNCHANGED <<variant, queueVars, taskVars, histVars>>
    /\ UNCHANGED <<running, wpc, prod, timers, retry, stopped>>

\* ----------------------------------------------------------- specification
Next ==
    \/ \E t \in Tasks : PushCall(t)
    \/ \E t \in Tasks : PushLock(t)
    \/ \E t \in Tasks : PushBody(t)
    \/ \E t \in Tasks : TimerFire(t)
    \/ \E t \in Tasks : RetryLock(t)
    \/ \E t \in Tasks : RetryBody(t)
    \/ Stop
    \/ WatcherRecv
    \/ WatcherLock
    \/ WatcherBody
    \/ RunStart
    \/ ConsumerLock
    \/ ConsumerWait
    \/ ConsumerShutdown
    \/ ConsumerDequeue
    \/ \E t \in Tasks : ExecFinish(t)
    \/ RunReturn

Spec == Init /\ [][Next]_vars

\* Goroutines are scheduled fairly, a contended sync.Mutex is handed to each
\* waiter in turn (starvation mode), every task function returns and every
\* armed timer fires.  Calling Push and closing the stop channel are the
\* environment's choice.
Fairness ==
    /\ \A t \in Tasks : SF_vars(PushLock(t))
    /\ \A t \in Tasks : WF_vars(PushBody(t))
    /\ \A t \in Tasks : WF_vars(TimerFire(t))
    /\ \A t \in Tasks : SF_vars(RetryLock(t))
    /\ \A t \in Tasks : WF_vars(RetryBody(t))
    /\ WF_vars(WatcherRecv)
    /\ SF_vars(WatcherLock)
    /\ WF_vars(WatcherBody)
    /\ WF_vars(RunStart)
    /\ SF_vars(ConsumerLock)
    /\ WF_vars(ConsumerWait)
    /\ WF_vars(ConsumerShutdown)
    /\ WF_vars(ConsumerDequeue)
    /\ \A t \in Tasks : WF_vars(ExecFinish(t))
    /\ WF_vars(RunReturn)

FairSpec == Init /\ [][Next]_vars /\ Fairness

\* the queue used against its contract: Run may be called again after it
\* has returned
NextRerun == Next \/ RunAgain

SpecRerun == Init /\ [][NextRerun]_vars

\* ------------------------------------------------------- derived predicates
\* the run loop has been left
LoopExited == cpc \in {"return", "stopped"}

\* t's producer has returned from Push and t was appended by it
Admitted(t) == t \in Range(pushOrder)

\* t's producer has returned from Push and t was discarded by it
Discarded(t) == prod[t] = "done" /\ ~Admitted(t)

\* this step is the end of an execution of t that returned an error
FailStep(t) == t \in running /\ t \notin running' /\ WillFail(t)

\* ------------------------------------------------------------------ claims
\* C1: drain before stop.  The run loop is left only when closing is set and
\* q.tasks is empty, so whenever the loop has been left or Closed has fired
\* nothing is left in q.tasks: every task that was buffered when closing was
\* set has been taken out and executed.
DrainBeforeStop ==
    /\ LoopExited => (closing /\ Len(tasks) = 0)
    /\ closedCh => Len(tasks) = 0

\* C2: FIFO order.  First executions follow the order in which the producers'
\* pushes were appended: a task is never executed for the first time while a
\* task appended before it has not yet been executed.
FifoOrder ==
    \A i, j \in 1..Len(pushOrder) :
        (i < j /\ execs[pushOrder[j]] > 0) => execs[pushOrder[i]] > 0

\* witness of C2: both pushes were appended in the order 2, 1 and both tasks
\* have been executed
FifoWitness ==
    /\ pushOrder = <<2, 1>>
    /\ execs[1] > 0
    /\ execs[2] > 0

\* C3: at most one task is executing in every reachable state.
AtMostOneInFlight == Cardinality(running) <= 1

\* witness of C3: a task is executing while the retry timer of another task
\* is armed
InFlightWitness ==
    \E t \in running : \E u \in Tasks \ {t} : timers[u] > 0

\* C4: a Push (by a producer or by a retry timer) that finds closing set
\* changes nothing of the queue but the lock it releases; a Push that finds
\* closing clear appends its task at the tail and keeps the other elements.
PushEffect(owner, t) ==
    (lock = owner /\ lock' # owner) =>
        IF closing
          THEN /\ tasks' = tasks
               /\ UNCHANGED <<closing, closedCh, onceDone, closeCount, cpc, running>>
          ELSE /\ tasks' = Append(tasks, t)
               /\ UNCHANGED <<closing, closedCh, onceDone, closeCount, running>>

PushFrame ==
    [][\A t \in Tasks : PushEffect(Producer(t), t) /\ PushEffect(Retrier(t), t)]_vars

\* witness of C4: one producer's task was discarded and another's was appended
\* behind an element already buffered
PushFrameWitness ==
    /\ \E t \in Tasks : Discarded(t)
    /\ \E t \in Tasks : Admitted(t)
    /\ closing

\* C5 as stated: a task whose Push is called after the stop channel was closed
\* is never executed, and the queue still reaches Closed.
LatePushNeverRuns ==
    /\ \A t \in Tasks : [](stopped /\ prod[t] = "idle" => [](execs[t] = 0))
    /\ \A t \in Tasks : (stopped /\ prod[t] = "idle") ~> closedCh

\* C5 amended: a task whose Push is called after closing was set (after the
\* watcher has acted on the stop signal) is never executed, and the queue
\* still reaches Closed.
ClosingPushNeverRuns ==
    /\ \A t \in Tasks : [](closing /\ prod[t] = "idle" => [](execs[t] = 0))
    /\ \A t \in Tasks : (closing /\ prod[t] = "idle") ~> closedCh

\* witness of C5: a Push made after closing was set has returned, its task was
\* discarded and never executed, and Closed has fired
ClosingPushWitness ==
    \E t \in Tasks : Discarded(t) /\ execs[t] = 0 /\ closedCh

\* C6: Closed fires once, only after the run loop has been left: when it has
\* fired the goroutine of Run has returned (it no longer dequeues or executes)
\* and no task is executing.
SingleClose ==
    /\ closeCount <= 1
    /\ closedCh <=> closeCount = 1
    /\ closedCh => (cpc = "stopped" /\ running = {} /\ lock # Consumer)

\* witness of C6: Closed has fired after a task was executed
SingleCloseWitness ==
    /\ closedCh
    /\ \E t \in Tasks : execs[t] > 0

\* C7: once the stop channel is closed, Closed eventually fires.
ShutdownLiveness == stopped ~> closedCh

\* witness of C7: Closed has fired although the consumer's last execution
\* failed and the task's retry was still outstanding
ShutdownWitness ==
    /\ stopped
    /\ closedCh
    /\ \E t \in Tasks : timers[t] > 0

\* C8: a never-failing task is executed at most once, and once a producer's
\* Push has appended it, it is executed unless the stop channel is closed.
NoLossNoDup ==
    /\ \A t \in Tasks : [](budget[t] = 0 => execs[t] <= 1)
    /\ \A t \in Tasks :
        (budget[t] = 0 /\ Admitted(t)) ~> (execs[t] = 1 \/ stopped)

\* witness of C8: every producer pushed a never-failing task, none was lost,
\* and stop was never signalled
NoLossWitness ==
    /\ ~stopped
    /\ \A t \in Tasks : budget[t] = 0 /\ Admitted(t) /\ execs[t] = 1

\* C9: each failed execution arms exactly one timer for the task, and while
\* that timer is armed the task is neither buffered nor executing.
RetryHappensAfter ==
    [][\A t \in Tasks :
        /\ FailStep(t) => timers'[t] = timers[t] + 1
        /\ timers'[t] > 0 =>
            (timers'[t] = 1 /\ t \notin Range(tasks') /\ t \notin running')]_vars

\* witness of C9: a task has failed, its timer is armed, and the consumer is
\* executing another task meanwhile
RetryWitness ==
    \E t \in Tasks : timers[t] = 1 /\ fails[t] > 0 /\ running # {}

\* C10: a buffered task is eventually executed unless the stop channel is
\* closed, whatever the other tasks return.
NonStarvation ==
    \A t \in Tasks : (t \in Range(tasks)) ~> (t \in running \/ stopped)

\* witness of C10: a task is executing while the retry timer of a task that
\* fails on every execution is armed
NonStarvationWitness ==
    \E t \in Tasks : \E u \in running :
        /\ budget[t] = Always
        /\ timers[t] > 0
        /\ u # t
        /\ ~stopped

\* C11: Push never blocks for ever.  The consumer holds the lock only while
\* it tests and updates the buffer, never while a task executes (so a Push
\* made by the executing task itself finds the lock released by its own
\* goroutine) nor while it is parked in Wait; every Push that was called, by
\* a producer or by a fired timer, eventually returns.
PushNeverBlocks ==
    /\ [](lock = Consumer => cpc = "check")
    /\ \A t \in Tasks : (prod[t] = "calling") ~> (prod[t] = "done")
    /\ \A t \in Tasks : (retry[t] = "calling") ~> (retry[t] = "none")

\* witness of C11: after Closed has fired a producer's Push holds the lock
\* and the Push of a fired retry timer is waiting for it
PushNeverBlocksWitness ==
    /\ closedCh
    /\ \E t \in Tasks : prod[t] = "locked"
    /\ \E t \in Tasks : retry[t] = "calling"

\* C12: a retried task goes to the tail.  A Push made by a retry timer that
\* finds closing clear appends its task behind everything buffered; elements
\* leave the buffer only at its head, by being executed; no step reorders
\* the buffer.  So whatever was buffered when the retry was pushed is executed
\* before the retried task is executed again.
TailStep(t) ==
    (lock = Retrier(t) /\ lock' # Retrier(t) /\ ~closing) => tasks' = Append(tasks, t)

HeadStep(t) ==
    (t \in running' /\ t \notin running) => (t = Head(tasks) /\ tasks' = Tail(tasks))

OrderKept ==
    \/ tasks' = tasks
    \/ \E t \in Tasks : tasks' = Append(tasks, t)
    \/ Len(tasks) > 0 /\ tasks' = Tail(tasks) /\ Head(tasks) \in running'

RetryAtTail ==
    [][OrderKept /\ \A t \in Tasks : TailStep(t) /\ HeadStep(t)]_vars

\* witness of C12: a task that failed has been pushed again by its timer and
\* is buffered behind another task, which is executed first
RetryAtTailWitness ==
    /\ Len(tasks) = 2
    /\ fails[tasks[2]] > 0
    /\ execs[tasks[2]] > 0
    /\ running = {}

\* C13: no missed wakeups.  Whenever the consumer is parked in Wait and has
\* not been signalled, the buffer is empty and closing is clear.
NoMissedWakeup ==
    cpc = "waiting" => (Len(tasks) = 0 /\ ~closing)

\* witness of C13: the consumer is parked while the watcher, holding the lock,
\* is about to signal and set closing, and a producer is waiting to push
WakeupWitness ==
    /\ cpc = "waiting"
    /\ wpc = "locked"
    /\ \E t \in Tasks : prod[t] = "calling"

\* C14: closing is false at construction and, once true, stays true.
ClosingMonotonic ==
    /\ closing = FALSE
    /\ [][closing => closing']_vars

\* witness of C14: closing is set, the run loop has been left and a producer
\* is still calling Push
ClosingWitness ==
    /\ closing
    /\ LoopExited
    /\ \E t \in Tasks : prod[t] = "locked"

\* C15: unbounded retry.  A task that fails on every execution, once
\* appended, is executed again and again unless the stop channel is closed.
UnboundedRetry ==
    \A t \in Tasks :
        (budget[t] = Always /\ Admitted(t) /\ t \notin running)
            ~> (t \in running \/ stopped)

\* witness of C15: a task that always fails is being executed after more
\* failures than any bounded task makes
UnboundedRetryWitness ==
    \E t \in Tasks :
        /\ budget[t] = Always
        /\ execs[t] = MaxExecs
        /\ fails[t] = MaxFails
        /\ t \in running
        /\ ~stopped

\* C16: idempotent teardown.  However often Run returns on the same queue,
\* close(q.closed) is executed at most once (a second close, which would
\* panic, is never made), and Closed has fired exactly when the gate has run.
IdempotentClose ==
    /\ closeCount <= 1
    /\ onceDone <=> closeCount = 1
    /\ closedCh <=> onceDone

\* witness of C16: a later call of Run has left its loop and is about to run
\* its deferred close with the gate already used
SecondReturnWitness ==
    /\ cpc = "return"
    /\ onceDone
    /\ closedCh

\* C17: retries are lost on shutdown.  Once closing is set, a task that is
\* neither buffered nor executing (its retry timer is armed, or its timer's
\* Push is under way, or that Push has discarded it) is never buffered or
\* executed again; a timer's Push that finds closing set leaves q.tasks as
\* it is.
RetryLost ==
    [][\A t \in Tasks :
        /\ (closing /\ t \notin Range(tasks) /\ t \notin running)
              => (t \notin Range(tasks') /\ t \notin running')
        /\ (closing /\ lock = Retrier(t) /\ lock' # Retrier(t))
              => tasks' = tasks]_vars

\* witness of C17: Closed has fired, and a task that failed once and would
\* have succeeded on its next execution was discarded by its timer's Push
RetryLostWitness ==
    \E t \in Tasks :
        /\ closedCh
        /\ budget[t] = 1
        /\ fails[t] = 1
        /\ execs[t] = 1
        /\ timers[t] = 0
        /\ retry[t] = "none"
        /\ t \notin Range(tasks)

\* C18: the run loop is left only because of shutdown.  Whenever Run has left
\* its loop or Closed has fired, closing is set and the stop channel has been
\* closed; so while stop is not signalled Run does not return and Closed
\* does not fire.
ExitOnlyOnShutdown ==
    (LoopExited \/ closedCh) => (closing /\ stopped /\ wpc = "done")

\* witness of C18: stop is not signalled and the consumer is parked again
\* after tasks have been executed, some of them returning an error
StillRunningWitness ==
    /\ ~stopped
    /\ cpc = "waiting"
    /\ \E t \in Tasks : fails[t] > 0
    /\ \E t \in Tasks : execs[t] > 0 /\ budget[t] = 0

\* number of places at which t is buffered
Count(t) == Cardinality({i \in 1..Len(tasks) : tasks[i] = t})

\* number of places a task occupies: each position in q.tasks, being
\* executed, each armed timer, a fired timer whose Push has not returned,
\* having returned nil, having been discarded
Places(t) ==
    Count(t)
    + (IF t \in running THEN 1 ELSE 0)
    + timers[t]
    + (IF retry[t] # "none" THEN 1 ELSE 0)
    + (IF fate[t] # "none" THEN 1 ELSE 0)

\* a task is in exactly one place once its producer's Push has returned,
\* and in none before
OnePlace ==
    \A t \in Tasks : Places(t) = (IF prod[t] = "done" THEN 1 ELSE 0)

\* C19 as stated: a pushed task is in exactly one place, and the number of
\* its executions is one plus the number of its admitted retry Pushes.
TaskConservationAsStated ==
    /\ OnePlace
    /\ \A t \in Tasks :
        (prod[t] = "done" /\ admits[t] < MaxExecs)
            => execs[t] = Min(1 + admits[t], MaxExecs)

\* C19 amended: a pushed task is in exactly one place, and for a task whose
\* first Push was admitted the number of its executions, plus one while it
\* is buffered, is one plus the number of its admitted retry Pushes.
TaskConservation ==
    /\ OnePlace
    /\ \A t \in Tasks :
        (Admitted(t) /\ admits[t] < MaxExecs)
            => execs[t] = Min(1 + admits[t] - Count(t), MaxExecs)

\* witness of C19: a task that failed was pushed again by its timer and is
\* buffered, not yet executed a second time, while another task has finished
TaskConservationWitness ==
    \E t, u \in Tasks :
        /\ Count(t) = 1
        /\ admits[t] = 1
        /\ execs[t] = 1
        /\ fate[u] = "ok"

====
